---- MODULE Spec2Model ----
(***************************************************************************)
(* Model of file-dump.py ("Project Surgical Dumper"): the include-graph    *)
(* traversal, the symbol fixed point and the selective export of main(),   *)
(* with resolve_path and the identifier tokenizer as operators.            *)
(*                                                                         *)
(* A path is a record [dir, stem, ext] standing for the canonical path     *)
(* <cwd>/dir/stem.ext.  A text is the set of its maximal word-character    *)
(* runs ("words"); a function span is the set of words of the span.        *)
(***************************************************************************)
EXTENDS Integers, Sequences, FiniteSets, TLC

\* ------------------------------------------------------------------ bounds
\* Most #include directives in the files on disk, all together.
MaxIncludes == 3
\* Largest search depth the user types at the prompt (the smallest is -1).
MaxDepthInput == 2
\* Largest number of functions in the function map of an included file.
MaxFuncs == 2

\* ------------------------------------------------------- paths and strings
NoPath == [dir |-> "", stem |-> "", ext |-> ""]

MkPath(d, s, e) == [dir |-> d, stem |-> s, ext |-> e]

\* Directories os.walk does not descend into.
ExcludedDirs == {".git", "node_modules", "obj", "bin", "build"}

\* The three top-level directories resolve_path falls back to, in order.
FallbackDirs == <<"include", "src", "lib">>

\* Lexicographic rank of the strings that occur in paths.
StrOrder == <<"", "a", "app", "b", "build", "c", "cpp", "h", "include", "lib", "src">>

StrRank(s) == CHOOSE i \in 1..Len(StrOrder) : StrOrder[i] = s

\* Path.__lt__: compare the parts (directory, then file name) as strings.
PathLess(p, q) ==
    \/ StrRank(p.dir) < StrRank(q.dir)
    \/ /\ p.dir = q.dir
       /\ \/ StrRank(p.stem) < StrRank(q.stem)
          \/ p.stem = q.stem /\ StrRank(p.ext) < StrRank(q.ext)

RECURSIVE SortedPaths(_)
SortedPaths(S) ==
    IF S = {} THEN << >>
    ELSE LET m == CHOOSE p \in S : \A q \in S \ {p} : PathLess(p, q)
         IN  <<m>> \o SortedPaths(S \ {m})

Range(s) == {s[i] : i \in 1..Len(s)}

\* ------------------------------------------------------------------- words
\* Words matching [a-zA-Z_][a-zA-Z0-9_]* ...
Idents == {"f", "g", "k"}
\* ... and words of \w+ that do not (a leading digit), which C_FUNC_DEF
\* still accepts as a function name.
OddWords == {"2x"}
Words == Idents \cup OddWords

IsIdentifier(w) == w \notin OddWords

\* CParser.find_usages: the identifier tokens of a text.
FindUsages(words) == {w \in words : IsIdentifier(w)}

\* ------------------------------------------------------------ resolve_path
\* The six candidates of resolve_path, in order.
CandidatesFallbackFirst(base_file, import_str) ==
    << MkPath(base_file.dir, import_str.stem, import_str.ext),
       MkPath(FallbackDirs[1], import_str.stem, import_str.ext),
       MkPath(FallbackDirs[2], import_str.stem, import_str.ext),
       MkPath(FallbackDirs[3], import_str.stem, import_str.ext),
       MkPath(base_file.dir, import_str.stem, "c"),
       MkPath(base_file.dir, import_str.stem, "cpp") >>

Candidates(base_file, import_str) ==
    << MkPath(base_file.dir, import_str.stem, import_str.ext),
       MkPath(base_file.dir, import_str.stem, "c"),
       MkPath(base_file.dir, import_str.stem, "cpp"),
       MkPath(FallbackDirs[1], import_str.stem, import_str.ext),
       MkPath(FallbackDirs[2], import_str.stem, import_str.ext),
       MkPath(FallbackDirs[3], import_str.stem, import_str.ext) >>

ResolvePath(base_file, import_str, known) ==
    LET c == Candidates(base_file, import_str)
        hits == {i \in 1..Len(c) : c[i] \in known}
    IN  IF hits = {} THEN NoPath
        ELSE c[CHOOSE i \in hits : \A j \in hits : i <= j]

\* os.walk('.') with the excluded directories pruned.
IndexProject(onDisk) == {p \in onDisk : p.dir \notin ExcludedDirs}

\* -------------------------------------------------------------- file texts
\* A file text as far as main() looks at it:
\*   incl     the include strings of its #include directives, in file order
\*   funcs    the function map get_blocks extracts (name -> words of the span),
\*            in insertion order; the span starts at the signature, so the
\*            name is one of its words
\*   extra    the words of the text outside function spans and include lines
\*   defines, types   the #define lines and the type spans, in file order
ImportStrs == {[stem |-> s, ext |-> "h"] : s \in {"a", "b"}}

SeqsUpTo(S, n) == UNION {[1..k -> S] : k \in 0..n}

IncludeLists == SeqsUpTo(ImportStrs, MaxIncludes)

IncludeWords(incl) ==
    IF incl = << >> THEN {}
    ELSE {"include"} \cup {incl[i].stem : i \in 1..Len(incl)}
                     \cup {incl[i].ext : i \in 1..Len(incl)}

FunctionWords(funcs) == UNION {funcs[i].body : i \in 1..Len(funcs)}

\* The words of the raw text of a file.
RawWords(file) ==
    file.extra \cup FunctionWords(file.funcs) \cup IncludeWords(file.incl)

\* CParser.get_blocks, on the abstraction of a text described above.
ExtractBlocks(file) ==
    [headers |-> file.incl, defines |-> file.defines, types |-> file.types,
     functions |-> file.funcs]

\* The include strings found by re.findall(r'#include...') in the text.
FindIncludes(file) == file.incl

\* ------------------------------------------------------------------- state
DEFAULT_CONFIG ==
    [max_depth |-> 3, output_file |-> "project_dump.txt", entry_file |-> NoPath]

VARIABLES
    disk,             \* the paths that exist on disk
    files,            \* disk path -> text of the file
    entry_input,      \* the entry file typed at the prompt (NoPath: empty)
    max_depth,        \* the search depth typed at the prompt
    pc,               \* "start", "traverse", "resolve", "export",
                      \* "done", "error" (entry not found), "crashed"
    saved_config,     \* content of .project_dumper_config.json
    all_files,        \* the indexed project files
    queue,            \* worklist of [path, depth]
    visited,
    processed_files,  \* insertion-ordered dict: sequence of blocks with path
    used_symbols,
    changed,
    count_before,
    out_written,      \* the output file has been opened for writing
    output,           \* the sections written to the output file
    read_log,         \* history: [path, depth] of every file read and extracted
    rejected,         \* history: unvisited paths dequeued beyond max_depth
    failed,           \* history: paths whose open() raised
    passes,           \* history: number of passes of the symbol loop so far
    fpc,              \* position of a run of one function on its own:
                      \* "main" (none), "call", "return", "scan", "extracted"
    arg,              \* the arguments of resolve_path or strip_comments
    ret,              \* the value returned
    content,          \* get_blocks: the text, stripped of comments
    gb_functions,     \* get_blocks: blocks['functions'], in insertion order
    pos,              \* get_blocks: where finditer looks for the next match
    candidates        \* history: the C_FUNC_DEF matches and their end_idx

mainvars == <<disk, files, entry_input, max_depth, pc, saved_config, all_files,
              queue, visited, processed_files, used_symbols, changed,
              count_before, out_written, output, read_log, rejected, failed,
              passes>>

fnvars == <<fpc, arg, ret, content, gb_functions, pos, candidates>>

vars == <<mainvars, fnvars>>

env == <<disk, files, entry_input, max_depth, all_files, fnvars>>

entry_path == entry_input

Keys(pf) == {pf[i].path : i \in 1..Len(pf)}

BlocksOf(pf, p) == pf[CHOOSE i \in 1..Len(pf) : pf[i].path = p]

\* processed_files[path] = blocks: a new key goes last, an old key keeps
\* its place.
PutAlone(pf, blocks) == <<blocks>>
Put(pf, blocks) ==
    IF blocks.path \in Keys(pf)
    THEN [i \in 1..Len(pf) |-> IF pf[i].path = blocks.path THEN blocks ELSE pf[i]]
    ELSE Append(pf, blocks)

\* ------------------------------------------------------------------ inputs
SrcPaths == {MkPath("src", "a", "c"), MkPath("src", "a", "h"), MkPath("src", "b", "h")}
HeaderPaths == {p \in SrcPaths : p.ext = "h"}
\* An entry file in a directory the index skips.
ExternalPath == MkPath("build", "a", "c")

\* What is on disk and which entry file the user names: an entry file of
\* the project, an entry file outside the index next to the project's
\* headers, or no usable entry file (empty input, missing file).
Layouts ==
    {l \in [disk : SUBSET SrcPaths, entry : SrcPaths] : l.entry \in l.disk} \cup
    {[disk |-> S \cup {ExternalPath}, entry |-> ExternalPath] : S \in SUBSET HeaderPaths} \cup
    {[disk |-> {MkPath("src", "a", "h")}, entry |-> e] :
        e \in {NoPath, MkPath("src", "b", "h")}}

PlainFile(incl) ==
    [incl |-> incl, funcs |-> << >>, extra |-> {}, defines |-> << >>,
     types |-> << >>]

\* A function span: its name and at most one other identifier.
FunctionSpans ==
    {[name |-> n, body |-> {n} \cup c] :
        n \in Words, c \in {{}} \cup {{w} : w \in Idents}}

DistinctNames(funcs) ==
    \A i, j \in 1..Len(funcs) : funcs[i].name = funcs[j].name => i = j

FunctionMaps(n) == {fs \in SeqsUpTo(FunctionSpans, n) : DistinctNames(fs)}

\* The state at the first prompt: configuration loaded, project indexed.
InitRun ==
    /\ pc = "start"
    /\ saved_config = DEFAULT_CONFIG
    /\ all_files = IndexProject(disk)
    /\ queue = << >>
    /\ visited = {}
    /\ processed_files = << >>
    /\ used_symbols = {}
    /\ changed = TRUE
    /\ count_before = 0
    /\ out_written = FALSE
    /\ output = << >>
    /\ read_log = << >>
    /\ rejected = {}
    /\ failed = {}
    /\ passes = 0
    /\ fpc = "main"
    /\ arg = << >>
    /\ ret = << >>
    /\ content = << >>
    /\ gb_functions = << >>
    /\ pos = 0
    /\ candidates = << >>

RECURSIVE IncludeCount(_, _)
IncludeCount(texts, paths) ==
    IF paths = {} THEN 0
    ELSE LET p == CHOOSE q \in paths : TRUE
         IN  Len(texts[p].incl) + IncludeCount(texts, paths \ {p})

\* Any include graph over the layouts; files without functions.
Init ==
    /\ \E l \in Layouts : disk = l.disk /\ entry_input = l.entry
    /\ files \in [disk -> {PlainFile(i) : i \in IncludeLists}]
    /\ IncludeCount(files, disk) <= MaxIncludes
    /\ max_depth \in -1..MaxDepthInput
    /\ InitRun

\* One entry file including one header, which holds any function map; the
\* entry text is one function span or one word.
EntryC == MkPath("src", "a", "c")
HeaderH == MkPath("src", "a", "h")

InitSym ==
    /\ disk = {EntryC, HeaderH}
    /\ \E ef \in FunctionMaps(1), x \in {{}} \cup {{w} : w \in Idents},
          hf \in FunctionMaps(MaxFuncs) :
          /\ files = [p \in disk |->
                     IF p = EntryC
                     THEN [incl |-> <<[stem |-> "a", ext |-> "h"]>>, funcs |-> ef,
                           extra |-> x, defines |-> << >>, types |-> << >>]
                     ELSE [incl |-> <<[stem |-> "b", ext |-> "h"]>>, funcs |-> hf,
                           extra |-> {}, defines |-> <<"#define D">>,
                           types |-> <<"struct T">>]]
          /\ ef = << >> \/ x = {}
          /\ \/ entry_input = EntryC
             \/ /\ entry_input = MkPath("src", "b", "h")
                /\ ef = << >> /\ hf = << >> /\ x = {}
    /\ max_depth \in {-1, 1}
    /\ InitRun

\* ------------------------------------------------------------------ main()
\* Line 121: the input is not empty and os.path.exists holds of it.
EntryNonEmpty(input, onDisk) == input # NoPath
EntryUsable(input, onDisk) == input # NoPath /\ input \in onDisk

\* Lines 120-123: empty input or a path that does not exist.
EntryNotFound ==
    /\ pc = "start"
    /\ ~EntryUsable(entry_input, disk)
    /\ pc' = "error"
    /\ UNCHANGED <<env, saved_config, queue, visited, processed_files,
                   used_symbols, changed, count_before, out_written, output,
                   read_log, rejected, failed, passes>>

\* Lines 125-139: the configuration is saved and the worklist created.
Begin ==
    /\ pc = "start"
    /\ EntryUsable(entry_input, disk)
    /\ saved_config' = [saved_config EXCEPT !.entry_file = entry_input,
                                            !.max_depth = max_depth]
    /\ processed_files' = << >>
    /\ used_symbols' = {}
    /\ queue' = <<[path |-> entry_path, depth |-> 0]>>
    /\ visited' = {}
    /\ pc' = "traverse"
    /\ UNCHANGED <<env, changed, count_before, out_written, output, read_log,
                   rejected, failed, passes>>

\* queue.pop(0): the index taken and what stays in the list.
PopLast(q) == Len(q)
PopIndex(q) == 1

KeepAll(q, i) == q
Remaining(q, i) == [j \in 1..(Len(q) - 1) |-> IF j < i THEN q[j] ELSE q[j + 1]]

\* Line 143: the entry is dropped without being read.
SkipDepthOnly(curr_path, depth, vis, maxd) == depth > maxd
SkipOffByOne(curr_path, depth, vis, maxd) == curr_path \in vis \/ depth > maxd + 1
Skip(curr_path, depth, vis, maxd) == curr_path \in vis \/ depth > maxd

\* Lines 158-161: the includes of the file just read, appended in file order.
RECURSIVE EnqueueFront(_, _, _, _, _, _)
EnqueueFront(q, includes, curr_path, depth, vis, known) ==
    IF includes = << >> THEN q
    ELSE LET res == ResolvePath(curr_path, Head(includes), known)
             q2 == IF res # NoPath /\ res \notin vis
                   THEN <<[path |-> res, depth |-> depth + 1]>> \o q
                   ELSE q
         IN  EnqueueFront(q2, Tail(includes), curr_path, depth, vis, known)

RECURSIVE Enqueue(_, _, _, _, _, _)
Enqueue(q, includes, curr_path, depth, vis, known) ==
    IF includes = << >> THEN q
    ELSE LET res == ResolvePath(curr_path, Head(includes), known)
             q2 == IF res # NoPath /\ res \notin vis
                   THEN Append(q, [path |-> res, depth |-> depth + 1])
                   ELSE q
         IN  Enqueue(q2, Tail(includes), curr_path, depth, vis, known)

\* One iteration of the traversal loop that ends at `continue`.
DequeueSkip ==
    /\ pc = "traverse" /\ queue # << >>
    /\ LET i == PopIndex(queue)
           curr == queue[i]
       IN  /\ Skip(curr.path, curr.depth, visited, max_depth)
           /\ queue' = Remaining(queue, i)
           /\ rejected' = IF curr.path \notin visited /\ curr.depth > max_depth
                          THEN rejected \cup {curr.path} ELSE rejected
    /\ UNCHANGED <<env, pc, saved_config, visited, processed_files,
                   used_symbols, changed, count_before, out_written, output,
                   read_log, failed, passes>>

\* One iteration that reads the file, extracts it and follows its includes.
DequeueProcess ==
    /\ pc = "traverse" /\ queue # << >>
    /\ LET i == PopIndex(queue)
           curr == queue[i]
           raw_content == files[curr.path]
           blocks == ExtractBlocks(raw_content)
       IN  /\ ~Skip(curr.path, curr.depth, visited, max_depth)
           /\ visited' = visited \cup {curr.path}
           /\ processed_files' =
                Put(processed_files,
                    [path |-> curr.path, headers |-> blocks.headers,
                     defines |-> blocks.defines, types |-> blocks.types,
                     functions |-> blocks.functions,
                     is_entry |-> (curr.path = entry_path)])
           /\ used_symbols' =
                IF curr.path = entry_path
                THEN used_symbols \cup FindUsages(RawWords(raw_content))
                ELSE used_symbols
           /\ queue' = Enqueue(Remaining(queue, i), FindIncludes(raw_content),
                               curr.path, curr.depth, visited', all_files)
           /\ read_log' = Append(read_log, curr)
    /\ UNCHANGED <<env, pc, saved_config, changed, count_before, out_written,
                   output, rejected, failed, passes>>

\* One iteration in which open() raises (no permission, file removed since
\* the index was built): nothing catches it, the run ends with a traceback.
DequeueReadFail ==
    /\ pc = "traverse" /\ queue # << >>
    /\ LET i == PopIndex(queue)
           curr == queue[i]
       IN  /\ ~Skip(curr.path, curr.depth, visited, max_depth)
           /\ queue' = Remaining(queue, i)
           /\ visited' = visited \cup {curr.path}
           /\ failed' = failed \cup {curr.path}
    /\ pc' = "crashed"
    /\ UNCHANGED <<env, saved_config, processed_files, used_symbols, changed,
                   count_before, out_written, output, read_log, rejected,
                   passes>>

\* `while queue:` finds the worklist empty.
TraverseExit ==
    /\ pc = "traverse" /\ queue = << >>
    /\ pc' = "resolve"
    /\ changed' = TRUE
    /\ UNCHANGED <<env, saved_config, queue, visited, processed_files,
                   used_symbols, count_before, out_written, output, read_log,
                   rejected, failed, passes>>

\* Lines 169-172: the functions of one file, in dict order, against the
\* set as it grows.
RECURSIVE ScanFunctions(_, _)
ScanFunctions(functions, used) ==
    IF functions = << >> THEN used
    ELSE ScanFunctions(Tail(functions),
                       IF Head(functions).name \in used
                       THEN used \cup FindUsages(Head(functions).body)
                       ELSE used)

\* Line 168: one pass over processed_files, in dict order.
RECURSIVE ScanFiles(_, _)
ScanFiles(pf, used) ==
    IF pf = << >> THEN used
    ELSE ScanFiles(Tail(pf), ScanFunctions(Head(pf).functions, used))

\* Line 173.
ChangedOrEqual(used, before) == Cardinality(used) >= before
ChangedNever(used, before) == FALSE
Changed(used, before) == Cardinality(used) > before

\* Lines 166-173: one pass of the symbol loop.
FixPass ==
    /\ pc = "resolve" /\ changed
    /\ count_before' = Cardinality(used_symbols)
    /\ used_symbols' = ScanFiles(processed_files, used_symbols)
    /\ changed' = Changed(used_symbols', count_before')
    /\ passes' = passes + 1
    /\ UNCHANGED <<env, pc, saved_config, queue, visited, processed_files,
                   out_written, output, read_log, rejected, failed>>

\* `while changed:` finds changed false.
FixExit ==
    /\ pc = "resolve" /\ ~changed
    /\ pc' = "export"
    /\ UNCHANGED <<env, saved_config, queue, visited, processed_files,
                   used_symbols, changed, count_before, out_written, output,
                   read_log, rejected, failed, passes>>

\* Line 188: the function body is written.
EmitAll(is_entry, name, used) == TRUE
EmitUsedOnly(is_entry, name, used) == name \in used
Emit(is_entry, name, used) == is_entry \/ name \in used

\* Lines 181-189: the section of one file.
Section(blocks, used) ==
    [path |-> blocks.path, headers |-> blocks.headers,
     defines |-> blocks.defines, types |-> blocks.types,
     functions |-> SelectSeq(blocks.functions,
                             LAMBDA fn : Emit(blocks.is_entry, fn.name, used))]

\* Lines 176-189: the sections of all processed files, sorted by path.
Export ==
    /\ pc = "export"
    /\ out_written' = TRUE
    /\ LET order == SortedPaths(Keys(processed_files))
       IN  output' = [i \in 1..Len(order) |->
                        Section(BlocksOf(processed_files, order[i]), used_symbols)]
    /\ pc' = "done"
    /\ UNCHANGED <<env, saved_config, queue, visited, processed_files,
                   used_symbols, changed, count_before, read_log, rejected,
                   failed, passes>>

Next ==
    \/ EntryNotFound
    \/ Begin
    \/ DequeueSkip
    \/ DequeueProcess
    \/ DequeueReadFail
    \/ TraverseExit
    \/ FixPass
    \/ FixExit
    \/ Export

Spec == Init /\ [][Next]_vars
SpecSym == InitSym /\ [][Next]_vars

\* The interpreter runs the single thread until main() returns or raises.
FairSpec == Spec /\ WF_vars(Next)
FairSpecSym == SpecSym /\ WF_vars(Next)

\* ------------------------------------------------------- the include graph
\* The files one resolved include away from p.
Succ(p) ==
    {ResolvePath(p, files[p].incl[i], all_files) : i \in 1..Len(files[p].incl)}
        \ {NoPath}

\* The files at most k resolved includes away from the entry file.
RECURSIVE Within(_)
Within(k) ==
    IF k < 0 THEN {}
    ELSE IF k = 0 THEN {entry_path}
    ELSE LET W == Within(k - 1) IN W \cup UNION {Succ(p) : p \in W}

Reachable == Within(Cardinality(disk))

\* Length of the shortest include path from the entry file to p.
Dist(p) == CHOOSE k \in 0..Cardinality(disk) : p \in Within(k) /\ p \notin Within(k - 1)

TraversalEnded == pc \in {"resolve", "export", "done"}

ReadCount(p) == Cardinality({i \in 1..Len(read_log) : read_log[i].path = p})

\* ------------------------------------------------------------------ claims
\* C1: for max_depth >= 0, when the traversal loop ends the keys of
\* processed_files are exactly the files whose shortest include distance
\* from the entry file is <= max_depth, and each was read and processed at
\* a depth equal to that distance.
C1_BfsDepth ==
    (TraversalEnded /\ max_depth >= 0) =>
        /\ Keys(processed_files) = Within(max_depth)
        /\ {read_log[i].path : i \in 1..Len(read_log)} = Keys(processed_files)
        /\ \A i \in 1..Len(read_log) : read_log[i].depth = Dist(read_log[i].path)

\* The loop has ended with two files at distance 1, one of which includes
\* the other: the included one also has an include path of length 2.
C1_Witness ==
    /\ TraversalEnded /\ max_depth = 2
    /\ \E p, q \in Keys(processed_files) :
          /\ p # q /\ Dist(p) = 1 /\ Dist(q) = 1
          /\ q \in Succ(p)

\* C2: every path is read and extracted at most once in a run, however
\* many files include it and however often it sits in the worklist; it has
\* one entry in processed_files and one section in the output.
C2_ReadOnce ==
    /\ \A p \in disk : ReadCount(p) <= 1
    /\ \A i, j \in 1..Len(processed_files) :
          processed_files[i].path = processed_files[j].path => i = j
    /\ pc = "done" =>
          /\ Len(output) = Len(read_log)
          /\ \A p \in Keys(processed_files) :
                Cardinality({i \in 1..Len(output) : output[i].path = p}) = 1

\* A diamond has been exported: the entry file and a second file both
\* include a third one, which was read once.
C2_Witness ==
    /\ pc = "done"
    /\ \E b, p \in Keys(processed_files) :
          /\ Cardinality({entry_path, b, p}) = 3
          /\ b \in Succ(entry_path) /\ p \in Succ(entry_path) /\ p \in Succ(b)
          /\ ReadCount(p) = 1

\* C3: a worklist entry dequeued with depth > max_depth adds no blocks and
\* no symbols and enqueues nothing; no file is ever read at a depth beyond
\* max_depth, and with max_depth = 0 only the entry file is read, so that
\* processed_files holds just the entry file when the loop has ended.
C3_DepthBound ==
    /\ [][(pc = "traverse" /\ queue # << >>
             /\ queue[PopIndex(queue)].depth > max_depth) =>
            /\ processed_files' = processed_files
            /\ used_symbols' = used_symbols
            /\ read_log' = read_log
            /\ queue' = Remaining(queue, PopIndex(queue))]_vars
    /\ [](\A i \in 1..Len(read_log) : read_log[i].depth <= max_depth)
    /\ [](max_depth = 0 =>
            /\ \A i \in 1..Len(read_log) : read_log[i].path = entry_path
            /\ TraversalEnded => Keys(processed_files) = {entry_path})

\* With max_depth = 0 the loop has ended, an include of the entry file was
\* dequeued and dropped, and a file two includes away exists.
C3_Witness ==
    /\ TraversalEnded /\ max_depth = 0
    /\ rejected # {}
    /\ \E p \in Reachable : Dist(p) = 2

\* C4: a path dequeued and dropped because its depth exceeded max_depth is
\* never visited later in the run, and no entry for it with a depth
\* <= max_depth is in the worklist.
C4_NoLateVisit ==
    /\ rejected \cap visited = {}
    /\ rejected \cap Keys(processed_files) = {}
    /\ \A i \in 1..Len(queue) :
          queue[i].path \in rejected => queue[i].depth > max_depth

\* A path has been dropped for its depth while the worklist still holds
\* entries to dequeue.
C4_Witness ==
    /\ pc = "traverse" /\ max_depth >= 1
    /\ rejected # {}
    /\ queue # << >>

\* C5: the traversal loop is left in every run, on cyclic and
\* self-including graphs too, and whenever it has ended normally the
\* worklist is empty.
C5_TraversalTerminates ==
    /\ <>(pc \in {"error", "crashed", "resolve", "export", "done"})
    /\ [](TraversalEnded => queue = << >>)

\* The same unvisited path sits twice in the worklist of a graph with a
\* cycle through the entry file.
C5_Witness ==
    /\ pc = "traverse"
    /\ \E i, j \in 1..Len(queue) :
          i < j /\ queue[i].path = queue[j].path /\ queue[i].path \notin visited
    /\ \E p \in Reachable \ {entry_path} : entry_path \in Succ(p)

\* -------------------------------------------------------- symbols, export
AllFunctions(pf) ==
    UNION {{pf[i].functions[j] : j \in 1..Len(pf[i].functions)} : i \in 1..Len(pf)}

\* The least set containing S and, with the name of a function of a
\* processed file, the identifier tokens of its span.
RECURSIVE Closure(_, _)
Closure(S, functions) ==
    LET T == S \cup UNION {FindUsages(fn.body) : fn \in {g \in functions : g.name \in S}}
    IN  IF T = S THEN S ELSE Closure(T, functions)

Seed == FindUsages(RawWords(files[entry_path]))

SymbolLoopEnded == pc \in {"export", "done"}

RunEnded == pc \in {"done", "error", "crashed"}

\* The section written for a path.
SectionOf(p) == output[CHOOSE i \in 1..Len(output) : output[i].path = p]

\* C6 (amended): in a run with max_depth >= 0, when the symbol loop ends
\* used_symbols is exactly the least set that contains the identifier tokens
\* of the entry file's raw text and is closed under 'the name of a function
\* of a processed file is in the set => the identifier tokens of its span
\* are in the set'.
C6_Closure ==
    (SymbolLoopEnded /\ max_depth >= 0) =>
        used_symbols = Closure(Seed, AllFunctions(processed_files))

\* C6 as stated, for every run in which the symbol loop ends.
C6_Original ==
    SymbolLoopEnded =>
        used_symbols = Closure(Seed, AllFunctions(processed_files))

\* The set grew in two passes before the third pass found it closed, and a
\* function of a processed file stays outside it.
C6_Witness ==
    /\ SymbolLoopEnded /\ max_depth >= 0
    /\ passes >= 3
    /\ \E fn \in AllFunctions(processed_files) : fn.name \notin used_symbols

\* C7: used_symbols never loses a member in any step, a pass after the
\* first is run only if the pass before it grew the set, and every run ends.
C7_Monotone ==
    /\ [][used_symbols \subseteq used_symbols']_vars
    /\ [][(pc = "resolve" /\ passes >= 1 /\ passes' = passes + 1) =>
            Cardinality(used_symbols) > count_before]_vars
    /\ <>RunEnded

\* A run has ended after two growing passes and a last one that added
\* nothing.
C7_Witness ==
    /\ pc = "done"
    /\ passes = 3
    /\ ~changed
    /\ Cardinality(used_symbols) = count_before

\* C8: in the output, a function of a processed file is written if and
\* only if the file is the entry file or the function's name is in the
\* final used_symbols; the include lines, define lines and type spans of
\* every processed file are written whatever used_symbols holds.
C8_Export ==
    pc = "done" =>
        \A i \in 1..Len(processed_files) :
            LET b == processed_files[i] IN
            /\ \E k \in 1..Len(output) : output[k].path = b.path
            /\ SectionOf(b.path).headers = b.headers
            /\ SectionOf(b.path).defines = b.defines
            /\ SectionOf(b.path).types = b.types
            /\ Range(SectionOf(b.path).functions) \subseteq Range(b.functions)
            /\ \A j \in 1..Len(b.functions) :
                  b.functions[j] \in Range(SectionOf(b.path).functions)
                      <=> (b.is_entry \/ b.functions[j].name \in used_symbols)

\* The included file has one function that is written and one that is
\* left out, and its include, define and type lines are in its section.
C8_Witness ==
    /\ pc = "done"
    /\ \E i \in 1..Len(processed_files) :
          LET b == processed_files[i] IN
          /\ ~b.is_entry
          /\ b.headers # << >> /\ b.types # << >> /\ b.defines # << >>
          /\ SectionOf(b.path).types = b.types
          /\ \E f1, f2 \in Range(b.functions) :
                /\ f1 \in Range(SectionOf(b.path).functions)
                /\ f2 \notin Range(SectionOf(b.path).functions)

\* What C9 says of a finished export.
EntryExported ==
    /\ Cardinality({i \in 1..Len(processed_files) : processed_files[i].is_entry}) = 1
    /\ \A i \in 1..Len(processed_files) :
          processed_files[i].is_entry <=> processed_files[i].path = entry_path
    /\ \E k \in 1..Len(output) : output[k].path = entry_path
    /\ SectionOf(entry_path).functions = BlocksOf(processed_files, entry_path).functions

\* C9 (amended): in every run with max_depth >= 0 that reaches the export,
\* exactly one processed file carries is_entry, it is the entry path, its
\* section is written and every function of its function map is written,
\* in used_symbols or not.
C9_EntryExempt == (pc = "done" /\ max_depth >= 0) => EntryExported

\* C9 as stated, for every run that reaches the export.
C9_Original == pc = "done" => EntryExported

\* The entry file's function has a name that is no identifier token, so it
\* is not in used_symbols, and it was written.
C9_Witness ==
    /\ pc = "done" /\ max_depth >= 0
    /\ \E fn \in Range(SectionOf(entry_path).functions) : fn.name \notin used_symbols

\* C10: when reading a file other than the entry file fails, the run
\* goes on (and later writes what it collected).
C10_ReadFailureContinues ==
    (failed # {} /\ entry_path \notin failed) => pc # "crashed"


\* ------------------------------------------------ entry check, loop frame
\* C17: when the entry path is empty or does not exist the run ends as an
\* error at once: the worklist is not created, no file is read or
\* extracted, used_symbols stays empty, the saved configuration is the one
\* that was loaded and no output file is opened.
C17_EntryMissing ==
    (fpc = "main" /\ ~(entry_input # NoPath /\ entry_input \in disk)) =>
        /\ pc \in {"start", "error"}
        /\ queue = << >> /\ visited = {}
        /\ read_log = << >> /\ failed = {} /\ processed_files = << >>
        /\ used_symbols = {}
        /\ saved_config = DEFAULT_CONFIG
        /\ ~out_written /\ output = << >>

\* A run whose entry file is missing although the project has files has
\* ended as an error.
C17_Witness ==
    /\ pc = "error"
    /\ entry_input # NoPath /\ entry_input \notin disk /\ disk # {}

\* Between two iterations of the traversal loop, and after it.
AtIterationBoundary == pc \in {"traverse", "resolve", "export", "done"}

\* C18: at every iteration boundary of the traversal loop visited equals
\* the key set of processed_files, and every member other than the entry
\* path is one of the indexed files.
C18_VisitedIsKeys ==
    AtIterationBoundary =>
        /\ visited = Keys(processed_files)
        /\ visited \ {entry_path} \subseteq all_files

\* An entry file outside the index and two indexed files have been visited.
C18_Witness ==
    /\ pc = "traverse"
    /\ entry_path \in visited /\ entry_path \notin all_files
    /\ Cardinality(visited) = 3

\* C19: at every iteration boundary the worklist is ordered by
\* non-decreasing depth, its first and last depths differ by at most 1, and
\* an entry is never dequeued after a deeper one.
C19_QueueOrder ==
    /\ [](pc = "traverse" =>
            /\ \A i, j \in 1..Len(queue) : i <= j => queue[i].depth <= queue[j].depth
            /\ queue # << >> => queue[Len(queue)].depth - queue[1].depth <= 1)
    /\ [][(pc = "traverse" /\ pc' = "traverse" /\ queue # << >> /\ queue' # << >>) =>
            queue'[PopIndex(queue')].depth >= queue[PopIndex(queue)].depth]_vars

\* The worklist holds entries of two depths, the deeper ones behind.
C19_Witness ==
    /\ pc = "traverse" /\ Len(queue) >= 2
    /\ queue[1].depth = 1 /\ queue[Len(queue)].depth = 2


\* ============================================ functions run on their own
\* main() is not running.
MainIdle ==
    /\ pc = "idle"
    /\ disk = {} /\ files = << >> /\ entry_input = NoPath /\ max_depth = 0
    /\ saved_config = DEFAULT_CONFIG /\ all_files = {}
    /\ queue = << >> /\ visited = {} /\ processed_files = << >>
    /\ used_symbols = {} /\ changed = TRUE /\ count_before = 0
    /\ out_written = FALSE /\ output = << >>
    /\ read_log = << >> /\ rejected = {} /\ failed = {} /\ passes = 0

\* ------------------------------------------------------------ resolve_path
\* The files a.h, a.c, a.cpp in the including file's directory and in the
\* three fallback directories.
KnownPaths ==
    {MkPath(d, "a", e) : d \in {"app", "include", "src", "lib"},
                         e \in {"h", "c", "cpp"}}

InitResolve ==
    /\ MainIdle
    /\ fpc = "call"
    /\ arg \in [base_file : {MkPath("app", "m", "c"), MkPath("src", "m", "c")},
                import_str : {[stem |-> "a", ext |-> e] : e \in {"h", "c"}},
                all_files : SUBSET KnownPaths]
    /\ ret = NoPath
    /\ content = << >> /\ gb_functions = << >> /\ pos = 0 /\ candidates = << >>

\* resolve_path(base_file, import_str, all_files) is called and returns.
ResolveCall ==
    /\ fpc = "call"
    /\ ret' = ResolvePath(arg.base_file, arg.import_str, arg.all_files)
    /\ fpc' = "return"
    /\ UNCHANGED <<mainvars, arg, content, gb_functions, pos, candidates>>

NextResolve == ResolveCall

SpecResolve == InitResolve /\ [][NextResolve]_vars

\* The six candidates written out one by one.
ClaimedCandidates ==
    LET here == arg.base_file.dir
        stem == arg.import_str.stem
        ext == arg.import_str.ext
    IN  << MkPath(here, stem, ext), MkPath(here, stem, "c"),
           MkPath(here, stem, "cpp"), MkPath("include", stem, ext),
           MkPath("src", stem, ext), MkPath("lib", stem, ext) >>

\* C11: resolve_path returns the first of (1) the include string in the
\* including file's directory, (2) the base name with .c there, (3) with
\* .cpp there, (4) include/, (5) src/, (6) lib/ + the include string that is
\* a known file, and None exactly when none of them is.
C11_FirstCandidate ==
    fpc = "return" =>
        /\ \A i \in 1..6 :
              (ClaimedCandidates[i] \in arg.all_files
                 /\ \A j \in 1..(i - 1) : ClaimedCandidates[j] \notin arg.all_files)
              => ret = ClaimedCandidates[i]
        /\ ret = NoPath <=> \A i \in 1..6 : ClaimedCandidates[i] \notin arg.all_files

\* The sibling .cpp file and the file under include/ are both known, the
\* include string itself is not: the .cpp file is returned.
C11_Witness ==
    /\ fpc = "return"
    /\ arg.base_file.dir = "app" /\ arg.import_str.ext = "h"
    /\ ClaimedCandidates[1] \notin arg.all_files
    /\ ClaimedCandidates[2] \notin arg.all_files
    /\ ClaimedCandidates[3] \in arg.all_files
    /\ ClaimedCandidates[4] \in arg.all_files
    /\ ret = MkPath("app", "a", "cpp")


\* ---------------------------------------------------------- strip_comments
\* Source text is a sequence of one-character strings.
MaxSegments == 3

RECURSIVE Flatten(_)
Flatten(seqs) ==
    IF seqs = << >> THEN << >> ELSE Head(seqs) \o Flatten(Tail(seqs))

\* End (exclusive) of '//.*?$' matched at i: the lazy body stops at the first
\* place where $ holds, before a newline or at the end of the text.
LineCommentEnd(code, i) ==
    CHOOSE e \in (i + 2)..(Len(code) + 1) :
        /\ e = Len(code) + 1 \/ code[e] = "\n"
        /\ \A m \in (i + 2)..(e - 1) : code[m] # "\n"

\* End (exclusive) of '/\*.*?\*/' matched at i, 0 when no '*/' follows.
BlockCommentEnd(code, i) ==
    LET closers == {m \in (i + 2)..(Len(code) - 1) :
                        code[m] = "*" /\ code[m + 1] = "/"}
    IN  IF closers = {} THEN 0
        ELSE 2 + CHOOSE m \in closers : \A n \in closers : m <= n

\* A quoted literal whose body is [^quote]*: a backslash escapes nothing.
RECURSIVE LiteralEndNoEscape(_, _, _)
LiteralEndNoEscape(code, at, quote) ==
    IF at > Len(code) THEN 0
    ELSE IF code[at] = quote THEN at + 1
    ELSE LiteralEndNoEscape(code, at + 1, quote)

\* End (exclusive) of the body-and-closing-quote part (?:\\.|[^\\q])*q of a
\* quoted literal, scanned from at; 0 when the literal is not closed.
RECURSIVE LiteralEnd(_, _, _)
LiteralEnd(code, at, quote) ==
    IF at > Len(code) THEN 0
    ELSE IF code[at] = quote THEN at + 1
    ELSE IF code[at] = "\\"
         THEN IF at + 1 > Len(code) THEN 0
              ELSE LiteralEnd(code, at + 2, quote)
    ELSE LiteralEnd(code, at + 1, quote)

\* End (exclusive) of the pattern's match starting at i, 0 when none of the
\* four alternatives matches there; the alternatives are tried in order.
MatchEnd(code, i) ==
    LET two == IF i + 1 <= Len(code) THEN <<code[i], code[i + 1]>> ELSE << >>
    IN  IF two = <<"/", "/">> THEN LineCommentEnd(code, i)
        ELSE IF two = <<"/", "*">> THEN BlockCommentEnd(code, i)
        ELSE IF code[i] = "'" THEN LiteralEnd(code, i + 1, "'")
        ELSE IF code[i] = "\"" THEN LiteralEnd(code, i + 1, "\"")
        ELSE 0

replacer(match) == IF Head(match) = "/" THEN <<" ">> ELSE match

\* re.sub: leftmost matches, left to right, unmatched characters copied.
RECURSIVE SubFrom(_, _)
SubFrom(code, i) ==
    IF i > Len(code) THEN << >>
    ELSE LET e == MatchEnd(code, i)
         IN  IF e = 0 THEN <<code[i]>> \o SubFrom(code, i + 1)
             ELSE replacer(SubSeq(code, i, e - 1)) \o SubFrom(code, e)

strip_comments(code) == SubFrom(code, 1)

\* Source texts built from lexical segments of known kind.
Seg(kind, chars) == [kind |-> kind, text |-> chars]

PlainSegments ==
    {Seg("plain", t) : t \in {<<"a">>, <<"\n">>, <<"*">>, <<"/", "a">>}}

LineComments ==
    {Seg("line", t) : t \in {<<"/", "/">>, <<"/", "/", "a", "\"">>,
                             <<"/", "/", "/", "*">>}}

BlockComments ==
    {Seg("block", t) : t \in {<<"/", "*", "*", "/">>,
                              <<"/", "*", "\"", "\n", "*", "/">>,
                              <<"/", "*", "/", "/", "*", "/">>}}

Literals ==
    {Seg("literal", t) : t \in {<<"\"", "/", "/", "\"">>,
                                <<"\"", "/", "*", "\"">>,
                                <<"\"", "\\", "\"", "/", "/", "\"">>,
                                <<"'", "\\", "'", "'">>,
                                <<"'", "\"", "'">>,
                                <<"\"", "\n", "/", "/", "\"">>}}

Segments == PlainSegments \cup LineComments \cup BlockComments \cup Literals

\* A line comment runs to the end of its line.
WellFormed(segs) ==
    \A n \in 1..Len(segs) :
        segs[n].kind = "line" =>
            n = Len(segs) \/ segs[n + 1].text = <<"\n">>

InitStrip ==
    /\ MainIdle
    /\ fpc = "call"
    /\ arg \in {segs \in SeqsUpTo(Segments, MaxSegments) : WellFormed(segs)}
    /\ ret = << >>
    /\ content = << >> /\ gb_functions = << >> /\ pos = 0 /\ candidates = << >>

\* strip_comments(code) is called on the text of the segments and returns.
StripCall ==
    /\ fpc = "call"
    /\ ret' = strip_comments(Flatten([n \in 1..Len(arg) |-> arg[n].text]))
    /\ fpc' = "return"
    /\ UNCHANGED <<mainvars, arg, content, gb_functions, pos, candidates>>

NextStrip == StripCall

SpecStrip == InitStrip /\ [][NextStrip]_vars

IsComment(seg) == seg.kind \in {"line", "block"}

\* C13: strip_comments replaces every // and /* */ comment that starts
\* outside a literal by one space and passes every complete quoted literal
\* through unchanged, also when it holds //, /* or an escaped quote; text
\* without a comment outside literals is returned unchanged.
C13_StripComments ==
    fpc = "return" =>
        /\ ret = Flatten([n \in 1..Len(arg) |->
                            IF IsComment(arg[n]) THEN <<" ">> ELSE arg[n].text])
        /\ (\A n \in 1..Len(arg) : ~IsComment(arg[n])) =>
               ret = Flatten([n \in 1..Len(arg) |-> arg[n].text])

\* A literal holding an escaped quote and //, then a line comment holding a
\* quote: the literal is kept, the comment became one space.
C13_Witness ==
    /\ fpc = "return"
    /\ Len(arg) = 2
    /\ arg[1].text = <<"\"", "\\", "\"", "/", "/", "\"">>
    /\ arg[2].text = <<"/", "/", "a", "\"">>
    /\ ret = <<"\"", "\\", "\"", "/", "/", "\"", " ">>


\* ------------------------------------------- CParser.get_blocks, functions
MaxPieces == 4

IsWord(c) == c \in {"a", "f", "g", "i", "x"}
IsSpace(c) == c \in {" ", "\n"}
\* The character class [\w\s\*].
InClass(c) == IsWord(c) \/ IsSpace(c) \/ c = "*"

NoMatch == [name |-> << >>, end |-> 0]

\* ^ under re.MULTILINE.
LineStart(text, p) == p = 1 \/ text[p - 1] = "\n"

\* [\w\s\*]+ from p: the first index whose character is outside the class,
\* Len + 1 when none.
ClassEnd(text, p) ==
    CHOOSE q \in p..(Len(text) + 1) :
        /\ q = Len(text) + 1 \/ ~InClass(text[q])
        /\ \A m \in p..(q - 1) : InClass(text[m])

\* [^)]* from p: the index of the first ')', Len + 1 when none.
ParenEnd(text, p) ==
    CHOOSE q \in p..(Len(text) + 1) :
        /\ q = Len(text) + 1 \/ text[q] = ")"
        /\ \A m \in p..(q - 1) : text[m] # ")"

\* \s* from p: the first index whose character is not white space.
SpaceEnd(text, p) ==
    CHOOSE q \in p..(Len(text) + 1) :
        /\ q = Len(text) + 1 \/ ~IsSpace(text[q])
        /\ \A m \in p..(q - 1) : IsSpace(text[m])

\* C_FUNC_DEF matched at p: group 1 and the end (exclusive) of the match.
\* Up to the '(' every character is in the class, so the '(' is the first
\* character outside it; the name is the last word before it, separated by
\* white space from at least one more class character; [^)]* runs to the
\* first ')', which only white space separates from the '{'.
FuncDefMatch(text, p) ==
    LET paren == ClassEnd(text, p)
        last == CHOOSE e \in (p - 1)..(paren - 1) :
                    /\ e = p - 1 \/ ~IsSpace(text[e])
                    /\ \A m \in (e + 1)..(paren - 1) : IsSpace(text[m])
        first == CHOOSE b \in p..(last + 1) :
                    /\ \A m \in b..last : IsWord(text[m])
                    /\ b = p \/ ~IsWord(text[b - 1])
        close == ParenEnd(text, paren + 1)
        brace == SpaceEnd(text, close + 1)
    IN  IF /\ LineStart(text, p)
           /\ paren <= Len(text) /\ text[paren] = "("
           /\ last >= p /\ first <= last
           /\ first >= p + 2 /\ IsSpace(text[first - 1])
           /\ close <= Len(text)
           /\ brace <= Len(text) /\ text[brace] = "{"
        THEN [name |-> SubSeq(text, first, last), end |-> brace + 1]
        ELSE NoMatch

\* finditer: the start of the next match at or after from, 0 when none.
NextMatchStart(text, from) ==
    LET starts == {p \in from..Len(text) : FuncDefMatch(text, p) # NoMatch}
    IN  IF starts = {} THEN 0
        ELSE CHOOSE p \in starts : \A o \in starts : p <= o

\* A scan that stops at the first '}' whatever the count.
RECURSIVE BraceScanFirstClose(_, _, _)
BraceScanFirstClose(text, i, brace_count) ==
    IF i > Len(text) THEN 0
    ELSE IF text[i] = "}" THEN i
    ELSE BraceScanFirstClose(text, i + 1, brace_count)

\* The brace scan from i with the counter at brace_count: the index of the
\* '}' that brings the counter to zero, 0 when the text ends first.
RECURSIVE BraceScan(_, _, _)
BraceScan(text, i, brace_count) ==
    IF i > Len(text) THEN 0
    ELSE IF text[i] = "{" THEN BraceScan(text, i + 1, brace_count + 1)
    ELSE IF text[i] = "}"
         THEN IF brace_count - 1 = 0 THEN i
              ELSE BraceScan(text, i + 1, brace_count - 1)
    ELSE BraceScan(text, i + 1, brace_count)

AlwaysFound(end_idx) == TRUE

Found(end_idx) == end_idx # 0

HasName(fs, name) == \E n \in 1..Len(fs) : fs[n].name = name

\* A map that keeps the first span stored under a name.
StoreFirst(fs, name, span) ==
    IF HasName(fs, name) THEN fs
    ELSE Append(fs, [name |-> name, span |-> span])

\* blocks['functions'][func_name] = span, on an insertion-ordered dict.
Store(fs, name, span) ==
    IF HasName(fs, name)
    THEN [n \in 1..Len(fs) |->
            IF fs[n].name = name THEN [name |-> name, span |-> span] ELSE fs[n]]
    ELSE Append(fs, [name |-> name, span |-> span])

\* Source texts are built from whole lines.
Pieces ==
    { <<"a", " ", "f", "(", ")", "{", "\n">>,
      <<"a", " ", "g", "(", ")", "{", "\n">>,
      <<"a", " ", "f", "(", "{", "}", ")", "{", "\n">>,
      <<" ", " ", "i", "f", "(", "x", ")", "{", "\n">>,
      <<"{", "\n">>,
      <<"}", "\n">> }

InitBlocks ==
    /\ MainIdle
    /\ fpc = "call"
    /\ arg \in {Flatten(ps) : ps \in SeqsUpTo(Pieces, MaxPieces)}
    /\ ret = << >>
    /\ content = << >> /\ gb_functions = << >> /\ pos = 0 /\ candidates = << >>

\* get_blocks(content) up to the function loop; the texts hold no #include,
\* #define or type definition, so those three lists stay empty.
BlocksCall ==
    /\ fpc = "call"
    /\ content' = strip_comments(arg)
    /\ gb_functions' = << >>
    /\ pos' = 1
    /\ fpc' = "scan"
    /\ UNCHANGED <<mainvars, arg, ret, candidates>>

\* One iteration of the function loop whose scan ends: the span is stored.
MatchStore ==
    /\ fpc = "scan"
    /\ LET start_idx == NextMatchStart(content, pos)
       IN  /\ start_idx # 0
           /\ LET match == FuncDefMatch(content, start_idx)
                  end_idx == BraceScan(content, start_idx, 0)
              IN  /\ Found(end_idx)
                  /\ gb_functions' = Store(gb_functions, match.name,
                                           SubSeq(content, start_idx, end_idx))
                  /\ candidates' = Append(candidates,
                         [name |-> match.name, start |-> start_idx,
                          end |-> end_idx, stored |-> TRUE])
                  /\ pos' = match.end
    /\ UNCHANGED <<mainvars, fpc, arg, ret, content>>

\* One iteration of the function loop whose scan reaches the end of the text.
MatchDrop ==
    /\ fpc = "scan"
    /\ LET start_idx == NextMatchStart(content, pos)
       IN  /\ start_idx # 0
           /\ LET match == FuncDefMatch(content, start_idx)
                  end_idx == BraceScan(content, start_idx, 0)
              IN  /\ ~Found(end_idx)
                  /\ candidates' = Append(candidates,
                         [name |-> match.name, start |-> start_idx,
                          end |-> end_idx, stored |-> FALSE])
                  /\ pos' = match.end
    /\ UNCHANGED <<mainvars, fpc, arg, ret, content, gb_functions>>

\* No further match: get_blocks returns.
BlocksReturn ==
    /\ fpc = "scan"
    /\ NextMatchStart(content, pos) = 0
    /\ ret' = [headers |-> << >>, types |-> << >>, defines |-> << >>,
               functions |-> gb_functions]
    /\ fpc' = "extracted"
    /\ UNCHANGED <<mainvars, arg, content, gb_functions, pos, candidates>>

NextBlocks == BlocksCall \/ MatchStore \/ MatchDrop \/ BlocksReturn

SpecBlocks == InitBlocks /\ [][NextBlocks]_vars

\* Number of '{' minus number of '}' in a text.
Balance(text) ==
    Cardinality({n \in 1..Len(text) : text[n] = "{"})
        - Cardinality({n \in 1..Len(text) : text[n] = "}"})

\* content[s..e] starts at a signature match and ends at the first '}' at
\* which the braces counted from s are balanced.
IsScanSpan(s, e) ==
    /\ 1 <= s /\ s <= e /\ e <= Len(content)
    /\ FuncDefMatch(content, s) # NoMatch
    /\ content[e] = "}"
    /\ Balance(SubSeq(content, s, e)) = 0
    /\ \A m \in s..(e - 1) :
          content[m] = "}" => Balance(SubSeq(content, s, m)) # 0

\* The '{' that ends the signature matched at s.
SignatureBrace(s) == FuncDefMatch(content, s).end - 1

\* C12 as stated: every stored span has as many '{' as '}', starts with the
\* '{' that follows the signature and ends with the '}' that balances it.
C12_Original ==
    \A n \in 1..Len(gb_functions) :
        LET span == gb_functions[n].span
        IN  /\ Balance(span) = 0
            /\ Head(span) = "{"
            /\ span[Len(span)] = "}"

\* C12: every stored span has as many '{' as '}', starts with the first
\* character of the signature match and ends with the first '}' at which
\* the braces counted from the start of the signature are balanced; that
\* '}' balances the '{' after the signature when the parameter list holds
\* no brace.
C12_Span ==
    \A n \in 1..Len(gb_functions) :
        LET span == gb_functions[n].span
        IN  /\ Balance(span) = 0
            /\ \E s, e \in 1..Len(content) :
                  /\ IsScanSpan(s, e)
                  /\ span = SubSeq(content, s, e)
                  /\ Head(span) = content[s] /\ Head(span) # "{"
                  /\ Balance(SubSeq(content, s, SignatureBrace(s) - 1)) = 0
                     /\ (\A m \in s..(SignatureBrace(s) - 1) :
                            content[m] \notin {"{", "}"})
                     => /\ e > SignatureBrace(s)
                        /\ Balance(SubSeq(content, SignatureBrace(s), e)) = 0

\* f holds a nested block and is stored whole, signature first.
C12_Witness ==
    /\ fpc = "extracted"
    /\ \E n \in 1..Len(gb_functions) :
          /\ gb_functions[n].name = <<"f">>
          /\ gb_functions[n].span =
                <<"a", " ", "f", "(", ")", "{", "\n", "{", "\n",
                  "}", "\n", "}">>


\* The braces counted from s are balanced at some '}' at or after s.
ScanReturnsToZero(s) ==
    \E e \in s..Len(content) :
        content[e] = "}" /\ Balance(SubSeq(content, s, e)) = 0

\* The span of the candidate that starts at s is in the function map.
Present(c) ==
    \E n \in 1..Len(gb_functions) :
        /\ gb_functions[n].name = c.name
        /\ c.end >= c.start
        /\ gb_functions[n].span = SubSeq(content, c.start, c.end)

\* C14: a candidate whose brace counter never returns to zero is not added
\* to the function map, the loop goes on, and every candidate whose scan
\* does return to zero is added.
C14_Unterminated ==
    /\ fpc \in {"call", "scan", "extracted"}
    /\ \A n \in 1..Len(candidates) :
          LET c == candidates[n]
          IN  /\ c.stored <=> ScanReturnsToZero(c.start)
              /\ c.stored => HasName(gb_functions, c.name)
              /\ (~ScanReturnsToZero(c.start) /\ HasName(gb_functions, c.name))
                    => \E o \in 1..Len(candidates) :
                          /\ o # n /\ candidates[o].name = c.name
                          /\ ScanReturnsToZero(candidates[o].start)

\* f is never closed and is dropped; g, found after it, is stored.
C14_Witness ==
    /\ fpc = "extracted"
    /\ Len(candidates) = 2
    /\ candidates[1].name = <<"f">> /\ ~candidates[1].stored
    /\ candidates[2].name = <<"g">> /\ candidates[2].stored
    /\ Len(gb_functions) = 1 /\ gb_functions[1].name = <<"g">>

\* C15: no span in the function map lies inside another span of the map.
C15_NoNestedSpan ==
    \A m, n \in 1..Len(candidates) :
        LET c == candidates[m]
            d == candidates[n]
        IN  (m # n /\ Present(c) /\ Present(d)) =>
                ~(c.start < d.start /\ d.end <= c.end)

\* C16: the function map holds one span per name, that of the last
\* candidate in file order with that name whose scan ended; the span of an
\* earlier candidate with that name is no longer in the map.
C16_LastWins ==
    /\ \A m, n \in 1..Len(gb_functions) :
          gb_functions[m].name = gb_functions[n].name => m = n
    /\ \A m, n \in 1..Len(candidates) :
          m < n => candidates[m].start < candidates[n].start
    /\ \A n \in 1..Len(gb_functions) :
          \E m \in 1..Len(candidates) : candidates[m].name = gb_functions[n].name
    /\ \A n \in 1..Len(candidates) :
          LET c == candidates[n]
              ended == {m \in 1..Len(candidates) :
                          /\ candidates[m].name = c.name
                          /\ ScanReturnsToZero(candidates[m].start)}
              latest == CHOOSE m \in ended : \A o \in ended : o <= m
          IN  IF ended = {} THEN ~HasName(gb_functions, c.name)
              ELSE /\ \E k \in 1..Len(gb_functions), e \in 1..Len(content) :
                         /\ gb_functions[k].name = c.name
                         /\ IsScanSpan(candidates[latest].start, e)
                         /\ gb_functions[k].span =
                               SubSeq(content, candidates[latest].start, e)
                   /\ \A m \in ended, e \in 1..Len(content) :
                         (/\ IsScanSpan(candidates[m].start, e)
                          /\ SubSeq(content, candidates[m].start, e) #
                                SubSeq(content, candidates[latest].start,
                                       candidates[latest].end))
                         => \A k \in 1..Len(gb_functions) :
                               gb_functions[k].span #
                                   SubSeq(content, candidates[m].start, e)
                               \/ gb_functions[k].name # c.name

\* Two definitions of f with different spans: only the second is kept.
C16_Witness ==
    /\ fpc = "extracted"
    /\ Len(candidates) = 2
    /\ candidates[1].name = <<"f">> /\ candidates[1].stored
    /\ candidates[2].name = <<"f">> /\ candidates[2].stored
    /\ candidates[1].end - candidates[1].start
          # candidates[2].end - candidates[2].start
    /\ gb_functions = << [name |-> <<"f">>,
                          span |-> SubSeq(content, candidates[2].start,
                                          candidates[2].end)] >>

====
